---- MODULE Spec2Model ----
(***************************************************************************)
(* A model of the Ti18n registry (zealsprince/ti18n): the locale table,    *)
(* the canonical key list, the cached coverage reports, the global         *)
(* language, and the translation entry points.                             *)
(*                                                                         *)
(* Strings are sequences of one-character strings, so that startsWith,     *)
(* split and concatenation are computed as the code computes them.  A      *)
(* value that may be null/undefined is a sequence of length at most one    *)
(* (None, Some(x)).  A JavaScript Map, and a plain object read through     *)
(* Object.entries, is a sequence of <<key, value>> entries in insertion    *)
(* order with pairwise distinct keys.                                      *)
(***************************************************************************)
EXTENDS Integers, Sequences, FiniteSets, TLC

VARIABLES i18ns, header, separator, _keys, coverageReports, currentLanguage,
          countryCodeMappings, snapshot, ret

vars == <<i18ns, header, separator, _keys, coverageReports, currentLanguage,
          countryCodeMappings, snapshot, ret>>

registry == <<i18ns, header, separator, _keys, coverageReports, currentLanguage,
              countryCodeMappings>>

(***************************************************************************)
(* Bounds of the model.                                                    *)
(***************************************************************************)
\* longest canonical key list handed to loadKeys and the constructor
MaxKeys == 2

\* most entries of a dictionary loaded under Spec
MaxDict == 2

\* most entries of a dictionary loaded under SpecTranslate
MaxEntries == 1

\* most (name, value) pairs of the args handed to translateTo under SpecSubstitute
MaxParams == 2

\* most entries of a language table loaded under SpecLanguages
MaxLanguages == 1

\* longest list of country-code mappings under SpecCountry
MaxMappings == 3

\* most elements the loop of addAllKeys is followed through
MaxVisits == 8

(***************************************************************************)
(* Option values and strings.                                              *)
(***************************************************************************)
None == <<>>

Some(x) == <<x>>

IsSome(o) == Len(o) = 1

Val(o) == o[1]

DEFAULT_I18N_HEADER == <<"i", "1", "8", "n">>

DEFAULT_I18N_SEPARATOR == <<":", ":">>

ERROR_MISSING_LOCALE ==
  <<"e","r","r","o","r","-","m","i","s","s","i","n","g","-","l","o","c","a","l","e">>

ERROR_MISSING_KEY ==
  <<"e","r","r","o","r","-","m","i","s","s","i","n","g","-","k","e","y">>

\* String.prototype.startsWith
StartsWith(s, p) == Len(s) >= Len(p) /\ SubSeq(s, 1, Len(p)) = p

\* String.prototype.indexOf: the first position of p in s, 0 when there is none
IndexOf(s, p) ==
  LET hits == {i \in 1..(Len(s) - Len(p) + 1) : SubSeq(s, i, i + Len(p) - 1) = p}
  IN IF hits = {} THEN 0 ELSE CHOOSE i \in hits : \A j \in hits : i <= j

\* String.prototype.split with a non-empty separator and no limit
RECURSIVE StrSplit(_, _)
StrSplit(s, sep) ==
  LET i == IndexOf(s, sep)
  IN IF i = 0 THEN <<s>>
     ELSE <<SubSeq(s, 1, i - 1)>> \o StrSplit(SubSeq(s, i + Len(sep), Len(s)), sep)

\* String.prototype.replace with a global pattern matching the literal text pat
RECURSIVE ReplaceAll(_, _, _)
ReplaceAll(s, pat, rep) ==
  LET i == IndexOf(s, pat)
  IN IF i = 0 THEN s
     ELSE SubSeq(s, 1, i - 1) \o rep \o ReplaceAll(SubSeq(s, i + Len(pat), Len(s)), pat, rep)

(***************************************************************************)
(* Regular expressions of the form \{name\} and global replacement.  A     *)
(* pattern is a sequence of atoms: a literal character or the dot, which   *)
(* matches any character (no template here holds a line terminator).  The  *)
(* names handed in are made of letters, digits and dots, so the dot is the *)
(* only metacharacter a pattern can hold.                                  *)
(***************************************************************************)
Lit(c) == <<"lit", c>>

AnyChar == <<"any", "">>

\* new RegExp(`\\{${k}\\}`, "g"): the escaped braces are literals, k is spliced
\* in unescaped
RegExpOf(k) ==
  <<Lit("{")>> \o [i \in 1..Len(k) |-> IF k[i] = "." THEN AnyChar ELSE Lit(k[i])]
               \o <<Lit("}")>>

MatchesAt(s, i, re) ==
  /\ i + Len(re) - 1 <= Len(s)
  /\ \A j \in 1..Len(re) : re[j][1] = "any" \/ re[j][2] = s[i + j - 1]

\* the replacement text of String.prototype.replace for a string replacement:
\* $$ stands for $, $& for the matched text; the patterns have no groups and the
\* values handed in hold no other $-sequence
RECURSIVE GetSubstitution(_, _)
GetSubstitution(rep, matched) ==
  IF rep = <<>> THEN <<>>
  ELSE IF Len(rep) >= 2 /\ rep[1] = "$" /\ rep[2] = "$"
       THEN <<"$">> \o GetSubstitution(SubSeq(rep, 3, Len(rep)), matched)
       ELSE IF Len(rep) >= 2 /\ rep[1] = "$" /\ rep[2] = "&"
            THEN matched \o GetSubstitution(SubSeq(rep, 3, Len(rep)), matched)
            ELSE <<Head(rep)>> \o GetSubstitution(Tail(rep), matched)

\* String.prototype.replace with a global regular expression: the matches are
\* taken left to right and do not overlap
RECURSIVE RegExpReplace(_, _, _)
RegExpReplace(s, re, rep) ==
  LET hits == {i \in 1..Len(s) : MatchesAt(s, i, re)}
  IN IF hits = {} THEN s
     ELSE LET i       == CHOOSE h \in hits : \A g \in hits : h <= g
              matched == SubSeq(s, i, i + Len(re) - 1)
          IN SubSeq(s, 1, i - 1) \o GetSubstitution(rep, matched)
               \o RegExpReplace(SubSeq(s, i + Len(re), Len(s)), re, rep)

(***************************************************************************)
(* Property order of a plain object (Object.entries): the keys that are    *)
(* array indices come first, in ascending numeric order, then the other    *)
(* keys in the order they were written.                                    *)
(***************************************************************************)
Digits == <<"0", "1", "2", "3", "4", "5", "6", "7", "8", "9">>

DigitValue(c) == (CHOOSE i \in 1..Len(Digits) : Digits[i] = c) - 1

\* a canonical numeric string (every name here is far shorter than 2^32 - 1)
IsArrayIndex(name) ==
  /\ name # <<>>
  /\ \A i \in 1..Len(name) : \E d \in 1..Len(Digits) : Digits[d] = name[i]
  /\ (Len(name) = 1 \/ name[1] # "0")

RECURSIVE NumberOf(_)
NumberOf(name) ==
  IF name = <<>> THEN 0
  ELSE Len(Digits) * NumberOf(SubSeq(name, 1, Len(name) - 1)) + DigitValue(name[Len(name)])

RECURSIVE AscendingIndices(_)
AscendingIndices(S) ==
  IF S = {} THEN <<>>
  ELSE LET m == CHOOSE p \in S : \A q \in S : NumberOf(p[1]) <= NumberOf(q[1])
       IN <<m>> \o AscendingIndices(S \ {m})

RECURSIVE OtherKeys(_)
OtherKeys(pairs) ==
  IF pairs = <<>> THEN <<>>
  ELSE IF IsArrayIndex(Head(pairs)[1]) THEN OtherKeys(Tail(pairs))
       ELSE <<Head(pairs)>> \o OtherKeys(Tail(pairs))

\* Object.entries of the object literal written with these pairs (distinct names)
ObjectEntries(pairs) ==
  AscendingIndices({pairs[i] : i \in {j \in 1..Len(pairs) : IsArrayIndex(pairs[j][1])}})
    \o OtherKeys(pairs)

(***************************************************************************)
(* JavaScript Map operations.                                              *)
(***************************************************************************)
MapHas(m, k) == \E i \in 1..Len(m) : m[i][1] = k

MapIndex(m, k) == CHOOSE i \in 1..Len(m) : m[i][1] = k

MapGet(m, k) == IF MapHas(m, k) THEN Some(m[MapIndex(m, k)][2]) ELSE None

\* MapSet as a delete followed by a set: an overwritten key moves to the end
MapSet_MovesToEnd(m, k, v) ==
  Append(SelectSeq(m, LAMBDA e : e[1] # k), <<k, v>>)

MapSet(m, k, v) ==
  IF MapHas(m, k) THEN [m EXCEPT ![MapIndex(m, k)] = <<k, v>>] ELSE Append(m, <<k, v>>)

MapKeys(m) == [i \in 1..Len(m) |-> m[i][1]]

\* new Map(Object.entries(obj))
RECURSIVE MapFromEntries(_)
MapFromEntries(entries) ==
  IF entries = <<>> THEN <<>>
  ELSE LET n == Len(entries)
       IN MapSet(MapFromEntries(SubSeq(entries, 1, n - 1)), entries[n][1], entries[n][2])

Range(seq) == {seq[i] : i \in 1..Len(seq)}

\* Array.prototype.includes
Includes(arr, x) == \E i \in 1..Len(arr) : arr[i] = x

\* Array.prototype.filter, keeping the elements outside `other`
RECURSIVE FilterNotIn(_, _)
FilterNotIn(arr, other) ==
  IF arr = <<>> THEN <<>>
  ELSE LET rest == FilterNotIn(Tail(arr), other)
       IN IF Includes(other, Head(arr)) THEN rest ELSE <<Head(arr)>> \o rest

(***************************************************************************)
(* Coverage.  A coverage number is the quotient translatedKeys/totalKeys   *)
(* of two small naturals; it is kept as the fraction in lowest terms, so   *)
(* that two coverage numbers are equal exactly when the quotients are.     *)
(***************************************************************************)
RECURSIVE Gcd(_, _)
Gcd(a, b) == IF b = 0 THEN a ELSE Gcd(b, a % b)

Quotient(a, b) == LET g == Gcd(a, b) IN [num |-> a \div g, den |-> b \div g]

One == [num |-> 1, den |-> 1]

getLocales(maps) == MapKeys(maps)

hasLocale(maps, locale) == MapHas(maps, locale)

\* CoverageOf with the extra keys filtered out of the wrong array
CoverageOf_ExtraFromKeys(keys, dictionary, locale) ==
  LET dictionaryKeys == MapKeys(dictionary)
      missingKeys    == FilterNotIn(keys, dictionaryKeys)
      extraKeys      == FilterNotIn(keys, dictionaryKeys)
      totalKeys      == Len(keys)
      translatedKeys == totalKeys - Len(missingKeys)
      coverage       == IF totalKeys > 0 THEN Quotient(translatedKeys, totalKeys) ELSE One
  IN [locale |-> locale, missingKeys |-> missingKeys,
      extraKeys |-> extraKeys, coverage |-> coverage]

\* CoverageOf counting the dictionary's entries as the translated keys
CoverageOf_CountsEntries(keys, dictionary, locale) ==
  LET dictionaryKeys == MapKeys(dictionary)
      missingKeys    == FilterNotIn(keys, dictionaryKeys)
      extraKeys      == FilterNotIn(dictionaryKeys, keys)
      totalKeys      == Len(keys)
      translatedKeys == Len(dictionaryKeys)
      coverage       == IF totalKeys > 0 THEN Quotient(translatedKeys, totalKeys) ELSE One
  IN [locale |-> locale, missingKeys |-> missingKeys,
      extraKeys |-> extraKeys, coverage |-> coverage]

\* the report built by validateLocale once its guard has passed
CoverageOf(keys, dictionary, locale) ==
  LET dictionaryKeys == MapKeys(dictionary)
      missingKeys    == FilterNotIn(keys, dictionaryKeys)
      extraKeys      == FilterNotIn(dictionaryKeys, keys)
      totalKeys      == Len(keys)
      translatedKeys == totalKeys - Len(missingKeys)
      coverage       == IF totalKeys > 0 THEN Quotient(translatedKeys, totalKeys) ELSE One
  IN [locale |-> locale, missingKeys |-> missingKeys,
      extraKeys |-> extraKeys, coverage |-> coverage]

\* validateLocale caching its report under the first loaded locale
validateLocale_CachesUnderFirst(reports, maps, keys, locale) ==
  IF Len(keys) = 0 \/ ~hasLocale(maps, locale)
  THEN [result |-> None, reports |-> reports]
  ELSE LET i18n   == Val(MapGet(maps, locale))
           report == CoverageOf(keys, i18n.dictionary, locale)
       IN [result |-> Some(report), reports |-> MapSet(reports, getLocales(maps)[1], report)]

\* validateLocale returning its report without caching it
validateLocale_SkipsCache(reports, maps, keys, locale) ==
  IF Len(keys) = 0 \/ ~hasLocale(maps, locale)
  THEN [result |-> None, reports |-> reports]
  ELSE LET i18n   == Val(MapGet(maps, locale))
           report == CoverageOf(keys, i18n.dictionary, locale)
       IN [result |-> Some(report), reports |-> reports]

\* validateLocale: the value returned and the report cache it leaves
validateLocale(reports, maps, keys, locale) ==
  IF Len(keys) = 0 \/ ~hasLocale(maps, locale)
  THEN [result |-> None, reports |-> reports]
  ELSE LET i18n   == Val(MapGet(maps, locale))
           report == CoverageOf(keys, i18n.dictionary, locale)
       IN [result |-> Some(report), reports |-> MapSet(reports, locale, report)]

getCoverageReport(reports, locale) == MapGet(reports, locale)

\* the loop of loadKeys: validateLocale for every locale of getLocales(), in order
RECURSIVE ValidateAll(_, _, _, _)
ValidateAll(reports, maps, keys, locales) ==
  IF locales = <<>> THEN reports
  ELSE ValidateAll(validateLocale(reports, maps, keys, Head(locales)).reports,
                   maps, keys, Tail(locales))

\* loadKeys: the key list is copied, then every loaded locale is validated again
loadKeys(reports, maps, keys) ==
  [keys |-> keys, reports |-> ValidateAll(reports, maps, keys, getLocales(maps))]

\* loadLocale: missing data and missing tables become empty tables; the entry
\* replaces any earlier one; the locale is validated when keys are defined
loadLocale(reports, maps, keys, locale, data) ==
  LET d          == IF IsSome(data) THEN Val(data) ELSE [languages |-> None, dictionary |-> None]
      languages  == IF IsSome(d.languages) THEN Val(d.languages) ELSE <<>>
      dictionary == IF IsSome(d.dictionary) THEN Val(d.dictionary) ELSE <<>>
      i18n       == [languages |-> MapFromEntries(languages),
                     dictionary |-> MapFromEntries(dictionary)]
      maps2      == MapSet(maps, locale, i18n)
  IN [maps |-> maps2,
      reports |-> IF Len(keys) > 0
                  THEN validateLocale(reports, maps2, keys, locale).reports
                  ELSE reports]

\* getAllCoverageReports: a new Map over the report objects the cache holds.  An
\* entry of the Map handed out is <<locale, report, shared>>; shared says that
\* the report is still the very object the cache holds for that locale.
getAllCoverageReports(reports) ==
  [i \in 1..Len(reports) |-> <<reports[i][1], reports[i][2], TRUE>>]

\* validateLocale puts a new report object in the cache for each of `locales`:
\* the reports a caller holds for them are no longer the cached objects
Detach(snap, locales) ==
  IF ~IsSome(snap) THEN snap
  ELSE Some([i \in 1..Len(Val(snap)) |->
               IF Val(snap)[i][1] \in locales
               THEN <<Val(snap)[i][1], Val(snap)[i][2], FALSE>>
               ELSE Val(snap)[i]])

\* loadLocales: loadLocale for every entry of the resources object, in order
RECURSIVE loadLocales(_, _, _, _)
loadLocales(reports, maps, keys, resources) ==
  IF resources = <<>> THEN [maps |-> maps, reports |-> reports]
  ELSE LET one == loadLocale(reports, maps, keys, Head(resources)[1], Head(resources)[2])
       IN loadLocales(one.reports, one.maps, keys, Tail(resources))

(***************************************************************************)
(* Keys and translation.                                                   *)
(***************************************************************************)
createKey(key) == header \o separator \o key

\* hasTranslationHeader testing for a separator instead of the header prefix
hasTranslationHeader_BySeparator(key) == IndexOf(key, separator) # 0

hasTranslationHeader(key) == StartsWith(key, header)

\* result[k] = v on a plain object: an own property keeps its place, a new one
\* takes its place in the property order
ObjectPut(obj, k, v) ==
  IF MapHas(obj, k) THEN MapSet(obj, k, v) ELSE ObjectEntries(Append(obj, <<k, v>>))

\* the loop of the keys getter (createAllKeys in index.ts): result[key] =
\* createKey(key) for every key of the list, in order
RECURSIVE KeysObject(_, _)
KeysObject(obj, list) ==
  IF list = <<>> THEN obj
  ELSE KeysObject(ObjectPut(obj, Head(list), createKey(Head(list))), Tail(list))

createAllKeys == KeysObject(<<>>, _keys)

\* addKey pushing the formatted key whether or not the list holds it
addKey_AlwaysPushes(list, key) ==
  LET formattedKey == IF hasTranslationHeader(key) THEN key ELSE createKey(key)
  IN [result |-> formattedKey, keys |-> Append(list, formattedKey)]

\* addKey: the key is formatted unless it has the header, and pushed unless the
\* list holds it already
addKey(list, key) ==
  LET formattedKey == IF hasTranslationHeader(key) THEN key ELSE createKey(key)
  IN [result |-> formattedKey,
      keys   |-> IF Includes(list, formattedKey) THEN list ELSE Append(list, formattedKey)]

\* addAllKeys: for..of over the live list, so that the keys addKey pushes are
\* visited as well.  The loop ends when the index has passed the end of the
\* list as it then is; it is followed for MaxVisits elements, and `returned`
\* says whether it has ended by then.
RECURSIVE addAllKeysFrom(_, _, _)
addAllKeysFrom(list, i, result) ==
  IF i > Len(list) \/ i > MaxVisits
  THEN [result |-> result, keys |-> list, visits |-> i - 1, returned |-> i > Len(list)]
  ELSE LET one == addKey(list, list[i])
       IN addAllKeysFrom(one.keys, i + 1, ObjectPut(result, list[i], one.result))

addAllKeys == addAllKeysFrom(_keys, 1, <<>>)

\* Capitalize<S>: the first character in upper case
LowerCase == <<"a", "b", "c">>

UpperCase == <<"A", "B", "C">>

Capitalize(s) ==
  IF s = <<>> THEN s
  ELSE LET at == {i \in 1..Len(LowerCase) : LowerCase[i] = s[1]}
       IN IF at = {} THEN s ELSE <<UpperCase[CHOOSE i \in at : TRUE]>> \o Tail(s)

\* ToCamelCase<S>: split at the first hyphen if there is one, else at the first
\* underscore, else at the first dot; the rest is converted and capitalized
RECURSIVE ToCamelCase(_)
ToCamelCase(s) ==
  LET hyphen     == IndexOf(s, <<"-">>)
      underscore == IndexOf(s, <<"_">>)
      dot        == IndexOf(s, <<".">>)
      i          == IF hyphen # 0 THEN hyphen ELSE IF underscore # 0 THEN underscore ELSE dot
  IN IF i = 0 THEN s
     ELSE SubSeq(s, 1, i - 1) \o Capitalize(ToCamelCase(SubSeq(s, i + 1, Len(s))))

\* the keys object with camel-case accessors: result[ToCamelCase(key)] =
\* createKey(key) for every canonical key in order, a later key overwriting an
\* earlier one of the same accessor name
RECURSIVE CamelKeysObject(_, _)
CamelKeysObject(obj, list) ==
  IF list = <<>> THEN obj
  ELSE CamelKeysObject(ObjectPut(obj, ToCamelCase(Head(list)), createKey(Head(list))),
                       Tail(list))

camelCaseKeys == CamelKeysObject(<<>>, _keys)

\* the placeholder loop of translateTo: one global regular-expression replace per
\* entry, in the order of the entries, each on the result of the one before
RECURSIVE Substitute(_, _)
Substitute(value, entries) ==
  IF entries = <<>> THEN value
  ELSE Substitute(RegExpReplace(value, RegExpOf(Head(entries)[1]), Head(entries)[2]),
                  Tail(entries))

\* the args of a translation call: a Map, iterated in insertion order, or a
\* plain object, iterated in the order of Object.entries
MapArgs(pairs) == [isMap |-> TRUE, pairs |-> pairs]

ObjectArgs(pairs) == [isMap |-> FALSE, pairs |-> pairs]

ArgEntries(args) == IF args.isMap THEN args.pairs ELSE ObjectEntries(args.pairs)

translateTo(key, locale, args) ==
  IF ~hasTranslationHeader(key) THEN key
  ELSE LET values == StrSplit(key, separator)
       IN IF Len(values) # 2 THEN key
          ELSE LET i18n == MapGet(i18ns, locale)
               IN IF ~IsSome(i18n)
                  THEN key \o separator \o locale \o separator \o ERROR_MISSING_LOCALE
                  ELSE LET i18nKey == values[2]
                           value   == MapGet(Val(i18n).dictionary, i18nKey)
                       IN IF ~IsSome(value) \/ Val(value) = <<>>
                          THEN key \o separator \o locale \o separator \o ERROR_MISSING_KEY
                          ELSE IF IsSome(args)
                               THEN Substitute(Val(value), ArgEntries(Val(args)))
                               ELSE Val(value)

\* translate: throws when currentLanguage is falsy (null or the empty string)
translateThrows == ~IsSome(currentLanguage) \/ Val(currentLanguage) = <<>>

translate(key, args) == translateTo(key, Val(currentLanguage), args)

\* the text returned for a locale that is not loaded
NotFound(locale) ==
  <<"I","n","t","e","r","n","a","t","i","o","n","a","l","i","z","a","t","i","o","n"," ","'">>
    \o locale \o <<"'"," ","n","o","t"," ","f","o","u","n","d">>

\* getLanguageName reading the dictionary instead of the language table
getLanguageName_FromDictionary(code, locale) ==
  LET i18n == MapGet(i18ns, locale)
  IN IF ~IsSome(i18n) THEN NotFound(locale)
     ELSE LET value == MapGet(Val(i18n).dictionary, code)
          IN IF ~IsSome(value) \/ Val(value) = <<>> THEN code ELSE Val(value)

\* getLanguageName: a missing or empty name falls back to the code
getLanguageName(code, locale) ==
  LET i18n == MapGet(i18ns, locale)
  IN IF ~IsSome(i18n) THEN NotFound(locale)
     ELSE LET value == MapGet(Val(i18n).languages, code)
          IN IF ~IsSome(value) \/ Val(value) = <<>> THEN code ELSE Val(value)

\* the code returned for a locale without a usable mapping
DEFAULT_COUNTRY_CODE == <<"X", "X">>

\* Array.prototype.find with the test m.locale === locale
FindMapping(mappings, locale) ==
  LET at == {i \in 1..Len(mappings) : mappings[i].locale = locale}
  IN IF at = {} THEN None
     ELSE Some(mappings[CHOOSE i \in at : \A j \in at : i <= j])

\* localeToCountryCode taking the last mapping of the locale
localeToCountryCode_LastMatch(locale) ==
  LET at == {i \in 1..Len(countryCodeMappings) : countryCodeMappings[i].locale = locale}
  IN IF at = {} \/ countryCodeMappings[CHOOSE i \in at : \A j \in at : i >= j].code = <<>>
     THEN DEFAULT_COUNTRY_CODE
     ELSE countryCodeMappings[CHOOSE i \in at : \A j \in at : i >= j].code

\* localeToCountryCode: mapping?.code || "XX"
localeToCountryCode(locale) ==
  LET mapping == FindMapping(countryCodeMappings, locale)
  IN IF ~IsSome(mapping) \/ Val(mapping).code = <<>> THEN DEFAULT_COUNTRY_CODE
     ELSE Val(mapping).code

\* setLanguage without its check
setLanguageThrows_Never(locale) == FALSE

\* setLanguage throws for a non-null locale that is not loaded
setLanguageThrows(locale) == IsSome(locale) /\ ~hasLocale(i18ns, Val(locale))

(***************************************************************************)
(* The inputs the operations are called with.                              *)
(***************************************************************************)
SeqsUpTo(S, n) == UNION {[1..k -> S] : k \in 0..n}

DistinctKeys(entries) ==
  \A i, j \in 1..Len(entries) : entries[i][1] = entries[j][1] => i = j

LocaleEmpty == <<>>

LocaleEn == <<"e", "n">>

LocaleFr == <<"f", "r">>

CoverageLocales == {LocaleEn, LocaleFr}

TranslationLocales == {LocaleEmpty, LocaleEn}

LocaleOptions == {None} \cup {Some(l) : l \in TranslationLocales}

KeyA == <<"a">>

KeyB == <<"b">>

KeyC == <<"c">>

KeyWithSeparator == <<"a", ":", ":", "b">>

TemplateH == <<"H">>

\* a plain object with the given dictionary and no languages table
DictionaryOnly(d) == Some([languages |-> None, dictionary |-> Some(d)])

\* inputs of the coverage operations: key lists over a and b, dictionaries over
\* a and c, so that a key can be translated, missing or extra
CoverageKeys == {KeyA, KeyB}

CoverageDictionaryKeys == {KeyA, KeyC}

CoverageKeyLists == SeqsUpTo(CoverageKeys, MaxKeys)

CoverageDictionaries ==
  {d \in SeqsUpTo(CoverageDictionaryKeys \X {TemplateH}, MaxDict) : DistinctKeys(d)}

CoverageData == {None} \cup {DictionaryOnly(d) : d \in CoverageDictionaries}

CoverageResources ==
  {<<>>} \cup
  {<<<<LocaleEn, DictionaryOnly(d)>>, <<LocaleFr, None>>>> : d \in CoverageDictionaries}

\* inputs of the translation operations: dictionaries whose keys may hold the
\* separator and whose templates may be empty
TranslationKeys == {KeyA, KeyWithSeparator}

Templates == {<<>>, TemplateH}

TranslationKeyLists == {<<>>, <<KeyA>>}

IsSorted(d) == \A i \in 1..(Len(d) - 1) : Len(d[i][1]) < Len(d[i + 1][1])

TranslationDictionaries ==
  {d \in SeqsUpTo(TranslationKeys \X Templates, MaxEntries) : IsSorted(d)}

TranslationData ==
  {None, Some([languages |-> Some(<<>>), dictionary |-> None])} \cup
  {DictionaryOnly(d) : d \in TranslationDictionaries}

TranslationResources ==
  {<<>>} \cup
  {<<<<LocaleEn, DictionaryOnly(<<<<KeyA, t>>>>)>>, <<LocaleEmpty, None>>>> : t \in Templates}

ParamInputs == {None, Some(ObjectArgs(<<<<<<"p">>, <<"X">>>>>>))}

\* keys handed to translateTo and translate: the namespaced form of the bare keys
\* (one of them in no dictionary), a bare key, and a key with a foreign prefix
QueryBareKeys == TranslationKeys \cup {KeyB}

QueryKeys ==
  {createKey(k) : k \in QueryBareKeys} \cup {KeyA, <<"x">> \o separator \o KeyA}

(***************************************************************************)
(* The state machine.  ret is the call that has just returned and what it  *)
(* returned (or that it threw); the caller takes it (Return) before the    *)
(* next call is made.                                                      *)
(***************************************************************************)
Ret(op, key, locale, args, out, threw, report) ==
  [op |-> op, key |-> key, locale |-> locale, args |-> args,
   out |-> out, threw |-> threw, report |-> report]

NoCall == Ret("none", <<>>, None, None, None, FALSE, None)

\* constructor: header and separator default when falsy, the country-code
\* mappings default to an empty list (index.ts); keys go through loadKeys.  No
\* snapshot of the reports has been handed out.
Constructor(h, s, k, m) ==
  /\ i18ns = <<>>
  /\ header = IF IsSome(h) /\ Val(h) # <<>> THEN Val(h) ELSE DEFAULT_I18N_HEADER
  /\ separator = IF IsSome(s) /\ Val(s) # <<>> THEN Val(s) ELSE DEFAULT_I18N_SEPARATOR
  /\ coverageReports = <<>>
  /\ currentLanguage = None
  /\ _keys = IF IsSome(k) THEN loadKeys(<<>>, <<>>, Val(k)).keys ELSE <<>>
  /\ countryCodeMappings = IF IsSome(m) THEN Val(m) ELSE <<>>
  /\ snapshot = None
  /\ ret = NoCall

LoadKeys(keys) ==
  LET r == loadKeys(coverageReports, i18ns, keys)
  IN /\ ret = NoCall
     /\ _keys' = r.keys
     /\ coverageReports' = r.reports
     /\ snapshot' = Detach(snapshot, IF keys = <<>> THEN {} ELSE Range(getLocales(i18ns)))
     /\ ret' = Ret("loadKeys", <<>>, None, None, None, FALSE, None)
     /\ UNCHANGED <<i18ns, header, separator, currentLanguage, countryCodeMappings>>

LoadLocale(locale, data) ==
  LET r == loadLocale(coverageReports, i18ns, _keys, locale, data)
  IN /\ ret = NoCall
     /\ i18ns' = r.maps
     /\ coverageReports' = r.reports
     /\ snapshot' = Detach(snapshot, IF _keys = <<>> THEN {} ELSE {locale})
     /\ ret' = Ret("loadLocale", <<>>, Some(locale), None, None, FALSE, None)
     /\ UNCHANGED <<header, separator, _keys, currentLanguage, countryCodeMappings>>

LoadLocales(resources) ==
  LET r == loadLocales(coverageReports, i18ns, _keys, resources)
  IN /\ ret = NoCall
     /\ i18ns' = r.maps
     /\ coverageReports' = r.reports
     /\ snapshot' = Detach(snapshot, IF _keys = <<>> THEN {} ELSE Range(MapKeys(resources)))
     /\ ret' = Ret("loadLocales", <<>>, None, None, None, FALSE, None)
     /\ UNCHANGED <<header, separator, _keys, currentLanguage, countryCodeMappings>>

\* setLanguage assigning before it checks
SetLanguage_AssignsFirst(locale) ==
  /\ ret = NoCall
  /\ currentLanguage' = locale
  /\ ret' = Ret("setLanguage", <<>>, locale, None, None, setLanguageThrows(locale), None)
  /\ UNCHANGED <<i18ns, header, separator, _keys, coverageReports, countryCodeMappings, snapshot>>

SetLanguage(locale) ==
  /\ ret = NoCall
  /\ currentLanguage' = IF setLanguageThrows(locale) THEN currentLanguage ELSE locale
  /\ ret' = Ret("setLanguage", <<>>, locale, None, None, setLanguageThrows(locale), None)
  /\ UNCHANGED <<i18ns, header, separator, _keys, coverageReports, countryCodeMappings, snapshot>>

ValidateLocale(locale) ==
  LET r == validateLocale(coverageReports, i18ns, _keys, locale)
  IN /\ ret = NoCall
     /\ coverageReports' = r.reports
     /\ snapshot' = Detach(snapshot, IF IsSome(r.result) THEN {locale} ELSE {})
     /\ ret' = Ret("validateLocale", <<>>, Some(locale), None, None, FALSE, r.result)
     /\ UNCHANGED <<i18ns, header, separator, _keys, currentLanguage, countryCodeMappings>>

GetCoverageReport(locale) ==
  /\ ret = NoCall
  /\ ret' = Ret("getCoverageReport", <<>>, Some(locale), None, None, FALSE,
                getCoverageReport(coverageReports, locale))
  /\ UNCHANGED <<registry, snapshot>>

TranslateTo(key, locale, args) ==
  /\ ret = NoCall
  /\ ret' = Ret("translateTo", key, Some(locale), args,
                Some(translateTo(key, locale, args)), FALSE, None)
  /\ UNCHANGED <<registry, snapshot>>

\* translate letting a key without the header through before it looks at the
\* global language
Translate_PassThrough(key, args) ==
  /\ ret = NoCall
  /\ ret' = IF ~hasTranslationHeader(key)
            THEN Ret("translate", key, None, args, Some(key), FALSE, None)
            ELSE IF translateThrows
            THEN Ret("translate", key, None, args, None, TRUE, None)
            ELSE Ret("translate", key, None, args, Some(translate(key, args)), FALSE, None)
  /\ UNCHANGED <<registry, snapshot>>

Translate(key, args) ==
  /\ ret = NoCall
  /\ ret' = IF translateThrows
            THEN Ret("translate", key, None, args, None, TRUE, None)
            ELSE Ret("translate", key, None, args, Some(translate(key, args)), FALSE, None)
  /\ UNCHANGED <<registry, snapshot>>

GetAllCoverageReports ==
  /\ ret = NoCall
  /\ snapshot' = Some(getAllCoverageReports(coverageReports))
  /\ ret' = Ret("getAllCoverageReports", <<>>, None, None, None, FALSE, None)
  /\ UNCHANGED registry

\* the caller deletes an entry of the Map it was handed
SnapshotDelete(locale) ==
  /\ ret = NoCall
  /\ IsSome(snapshot)
  /\ MapHas(Val(snapshot), locale)
  /\ snapshot' = Some(SelectSeq(Val(snapshot), LAMBDA e : e[1] # locale))
  /\ UNCHANGED <<registry, ret>>

\* the caller sets an entry of the Map it was handed to a report of its own
SnapshotSet(locale) ==
  LET snap  == Val(snapshot)
      entry == <<locale,
                 [locale |-> locale, missingKeys |-> <<>>, extraKeys |-> <<>>,
                  coverage |-> Quotient(0, 1)],
                 FALSE>>
  IN /\ ret = NoCall
     /\ IsSome(snapshot)
     /\ snapshot' = Some(IF MapHas(snap, locale)
                         THEN [snap EXCEPT ![MapIndex(snap, locale)] = entry]
                         ELSE Append(snap, entry))
     /\ UNCHANGED <<registry, ret>>

\* a write of the caller to a report object: report.coverage = 0, or the length
\* of one of its lists set to 0
Written(report, field) ==
  IF field = "coverage" THEN [report EXCEPT !.coverage = Quotient(0, 1)]
  ELSE IF field = "missingKeys" THEN [report EXCEPT !.missingKeys = <<>>]
       ELSE [report EXCEPT !.extraKeys = <<>>]

\* the caller writes to a report of the Map it was handed; the write lands in
\* the cache when that report is the object the cache holds
SnapshotWrite(locale, field) ==
  /\ ret = NoCall
  /\ IsSome(snapshot)
  /\ MapHas(Val(snapshot), locale)
  /\ LET snap   == Val(snapshot)
         i      == MapIndex(snap, locale)
         report == Written(snap[i][2], field)
     IN /\ snapshot' = Some([snap EXCEPT ![i] = <<locale, report, snap[i][3]>>])
        /\ coverageReports' = IF snap[i][3] THEN MapSet(coverageReports, locale, report)
                                           ELSE coverageReports
  /\ UNCHANGED <<i18ns, header, separator, _keys, currentLanguage, countryCodeMappings, ret>>

Keys ==
  /\ ret = NoCall
  /\ ret' = Ret("keys", <<>>, None, None, Some(createAllKeys), FALSE, None)
  /\ UNCHANGED <<registry, snapshot>>

CamelCaseKeys ==
  /\ ret = NoCall
  /\ ret' = Ret("camelCaseKeys", <<>>, None, None, Some(camelCaseKeys), FALSE, None)
  /\ UNCHANGED <<registry, snapshot>>

AddKey(key) ==
  LET r == addKey(_keys, key)
  IN /\ ret = NoCall
     /\ _keys' = r.keys
     /\ ret' = Ret("addKey", key, None, None, Some(r.result), FALSE, None)
     /\ UNCHANGED <<i18ns, header, separator, coverageReports, currentLanguage,
                    countryCodeMappings, snapshot>>

AddAllKeys ==
  LET r == addAllKeys
  IN /\ ret = NoCall
     /\ _keys' = r.keys
     /\ ret' = IF r.returned
               THEN Ret("addAllKeys", <<>>, None, None, Some(r.result), FALSE, None)
               ELSE Ret("addAllKeys", <<>>, None, None, None, FALSE, None)
     /\ UNCHANGED <<i18ns, header, separator, coverageReports, currentLanguage,
                    countryCodeMappings, snapshot>>

AddCountryCodeMapping(mapping) ==
  /\ ret = NoCall
  /\ Len(countryCodeMappings) < MaxMappings
  /\ countryCodeMappings' = Append(countryCodeMappings, mapping)
  /\ ret' = Ret("addCountryCodeMapping", <<>>, None, Some(<<mapping>>), None, FALSE, None)
  /\ UNCHANGED <<i18ns, header, separator, _keys, coverageReports, currentLanguage, snapshot>>

AddCountryCodeMappings(mappings) ==
  /\ ret = NoCall
  /\ Len(countryCodeMappings) + Len(mappings) <= MaxMappings
  /\ countryCodeMappings' = countryCodeMappings \o mappings
  /\ ret' = Ret("addCountryCodeMappings", <<>>, None, Some(mappings), None, FALSE, None)
  /\ UNCHANGED <<i18ns, header, separator, _keys, coverageReports, currentLanguage, snapshot>>

LocaleToCountryCode(locale) ==
  /\ ret = NoCall
  /\ ret' = Ret("localeToCountryCode", <<>>, Some(locale), None,
                Some(localeToCountryCode(locale)), FALSE, None)
  /\ UNCHANGED <<registry, snapshot>>

GetLocales ==
  /\ ret = NoCall
  /\ ret' = Ret("getLocales", <<>>, None, None, Some(getLocales(i18ns)), FALSE, None)
  /\ UNCHANGED <<registry, snapshot>>

GetLanguageName(code, locale) ==
  /\ ret = NoCall
  /\ ret' = Ret("getLanguageName", code, Some(locale), None,
                Some(getLanguageName(code, locale)), FALSE, None)
  /\ UNCHANGED <<registry, snapshot>>

Return ==
  /\ ret # NoCall
  /\ ret' = NoCall
  /\ UNCHANGED <<registry, snapshot>>

(***************************************************************************)
(* Spec: the registry under key loads, locale loads and coverage queries.  *)
(***************************************************************************)
Init ==
  \E k \in {None} \cup {Some(l) : l \in CoverageKeyLists} :
    Constructor(None, None, k, None)

Next ==
  \/ \E keys \in CoverageKeyLists : LoadKeys(keys)
  \/ \E locale \in CoverageLocales, data \in CoverageData : LoadLocale(locale, data)
  \/ \E resources \in CoverageResources : LoadLocales(resources)
  \/ \E locale \in CoverageLocales : ValidateLocale(locale)
  \/ \E locale \in CoverageLocales : GetCoverageReport(locale)
  \/ Return

Spec == Init /\ [][Next]_vars

(***************************************************************************)
(* SpecTranslate: the registry under locale loads, language changes and    *)
(* translation calls, for the default header and a custom one.             *)
(***************************************************************************)
HeaderOptions == {None, Some(<<>>), Some(<<"t">>)}

SeparatorOptions == {None, Some(<<>>)}

InitTranslate ==
  \E h \in HeaderOptions, s \in SeparatorOptions,
     k \in {None} \cup {Some(l) : l \in TranslationKeyLists} :
    Constructor(h, s, k, None)

NextTranslate ==
  \/ \E keys \in TranslationKeyLists : LoadKeys(keys)
  \/ \E locale \in TranslationLocales, data \in TranslationData :
       LoadLocale(locale, data)
  \/ \E resources \in TranslationResources : LoadLocales(resources)
  \/ \E locale \in LocaleOptions : SetLanguage(locale)
  \/ \E locale \in TranslationLocales : ValidateLocale(locale)
  \/ \E key \in QueryKeys, locale \in TranslationLocales, args \in ParamInputs :
       TranslateTo(key, locale, args)
  \/ \E key \in QueryKeys, args \in ParamInputs : Translate(key, args)
  \/ Return

SpecTranslate == InitTranslate /\ [][NextTranslate]_vars

(***************************************************************************)
(* SpecSubstitute: translateTo on one resolved key, for templates with     *)
(* placeholders and args given as a Map or as a plain object.  The names   *)
(* are a letter, a digit (as in the positional {1}) and a dot; the values  *)
(* are plain text, text with a $ and text that is itself a placeholder.    *)
(***************************************************************************)
ParamNames == {<<"p">>, <<".">>, <<"1">>, <<"2">>}

ParamValues == {<<"X">>, <<"$", "$">>, <<"$", "&">>, <<"{", "1", "}">>}

ParamLists ==
  {l \in SeqsUpTo(ParamNames \X ParamValues, MaxParams) : DistinctKeys(l)}

SubstitutionArgs ==
  {None} \cup {Some(MapArgs(l)) : l \in ParamLists}
         \cup {Some(ObjectArgs(l)) : l \in ParamLists}

SubstitutionTemplates ==
  { <<"{", "p", "}", "-", "{", "p", "}">>,
    <<"{", "q", "}">>,
    <<"{", "2", "}">>,
    TemplateH }

InitSubstitute == Constructor(None, None, None, None)

NextSubstitute ==
  \/ \E t \in SubstitutionTemplates : LoadLocale(LocaleEn, DictionaryOnly(<<<<KeyA, t>>>>))
  \/ \E args \in SubstitutionArgs : TranslateTo(createKey(KeyA), LocaleEn, args)
  \/ Return

SpecSubstitute == InitSubstitute /\ [][NextSubstitute]_vars

(***************************************************************************)
(* SpecLanguages: loads and reloads of two locales with language tables    *)
(* and dictionaries, the locale list, language names and translations.     *)
(***************************************************************************)
CodeDe == <<"d", "e">>

LanguageCodes == {CodeDe, LocaleEn}

LanguageNames == {<<>>, <<"G">>}

LanguageTables ==
  {l \in SeqsUpTo(LanguageCodes \X LanguageNames, MaxLanguages) : DistinctKeys(l)}

LanguageDictionaries == {<<>>} \cup {<<<<k, TemplateH>>>> : k \in TranslationKeys}

LanguageData ==
  {None} \cup
  {Some([languages |-> l, dictionary |-> d]) :
     l \in {None} \cup {Some(t) : t \in LanguageTables},
     d \in {None} \cup {Some(t) : t \in LanguageDictionaries}}

LanguageResources ==
  {<<>>} \cup
  {<<<<ab[1], DictionaryOnly(<<<<KeyA, TemplateH>>>>)>>, <<ab[2], None>>>> :
     ab \in {x \in CoverageLocales \X CoverageLocales : x[1] # x[2]}}

InitLanguages == Constructor(None, None, None, None)

NextLanguages ==
  \/ \E locale \in CoverageLocales, data \in LanguageData : LoadLocale(locale, data)
  \/ \E resources \in LanguageResources : LoadLocales(resources)
  \/ GetLocales
  \/ \E code \in LanguageCodes, locale \in CoverageLocales : GetLanguageName(code, locale)
  \/ \E k \in TranslationKeys, locale \in CoverageLocales :
       TranslateTo(createKey(k), locale, None)
  \/ Return

SpecLanguages == InitLanguages /\ [][NextLanguages]_vars

(***************************************************************************)
(* SpecSnapshot: the coverage reports, the Map of them handed out by       *)
(* getAllCoverageReports, and what its holder does with it.                *)
(***************************************************************************)
SnapshotKeyLists == {<<>>, <<KeyA>>, <<KeyA, KeyB>>}

SnapshotData == {DictionaryOnly(<<>>), DictionaryOnly(<<<<KeyC, TemplateH>>>>)}

ReportFields == {"coverage", "missingKeys", "extraKeys"}

InitSnapshot == Constructor(None, None, Some(<<KeyA, KeyB>>), None)

NextSnapshot ==
  \/ \E keys \in SnapshotKeyLists : LoadKeys(keys)
  \/ \E locale \in CoverageLocales, data \in SnapshotData : LoadLocale(locale, data)
  \/ \E locale \in CoverageLocales : ValidateLocale(locale)
  \/ \E locale \in CoverageLocales : GetCoverageReport(locale)
  \/ GetAllCoverageReports
  \/ \E locale \in CoverageLocales : SnapshotDelete(locale)
  \/ \E locale \in CoverageLocales : SnapshotSet(locale)
  \/ \E locale \in CoverageLocales, field \in ReportFields : SnapshotWrite(locale, field)
  \/ Return

SpecSnapshot == InitSnapshot /\ [][NextSnapshot]_vars

(***************************************************************************)
(* SpecKeys: the canonical key list under loadKeys, addKey and addAllKeys, *)
(* the key objects derived from it, and translations of the derived keys,  *)
(* for the default separator and for a dot.  The bare keys are a plain     *)
(* one, an array index, and two made of delimited segments.                *)
(***************************************************************************)
KeyOne == <<"1">>

KeyHyphen == <<"a", "-", "b">>

KeyDot == <<"a", ".", "b">>

BareKeys == {KeyA, KeyOne, KeyHyphen, KeyDot}

BareKeyLists == SeqsUpTo(BareKeys, MaxKeys)

\* every bare key with a template of its own
KeysDictionary ==
  << <<KeyA, <<"T", "a">>>>, <<KeyOne, <<"T", "1">>>>,
     <<KeyHyphen, <<"T", "-">>>>, <<KeyDot, <<"T", ".">>>> >>

InitKeys ==
  \E s \in {None, Some(<<".">>)}, k \in {None} \cup {Some(l) : l \in BareKeyLists} :
    Constructor(None, s, k, None)

NextKeys ==
  \/ \E list \in BareKeyLists : LoadKeys(list)
  \/ \E key \in {KeyA, createKey(KeyA)} : AddKey(key)
  \/ AddAllKeys
  \/ LoadLocale(LocaleEn, DictionaryOnly(KeysDictionary))
  \/ Keys
  \/ CamelCaseKeys
  \/ \E i \in 1..Len(camelCaseKeys) : TranslateTo(camelCaseKeys[i][2], LocaleEn, None)
  \/ Return

SpecKeys == InitKeys /\ [][NextKeys]_vars

(***************************************************************************)
(* SpecCountry: the list of country-code mappings (index.ts) under the     *)
(* constructor option and the two add operations, and the lookups in it.   *)
(***************************************************************************)
CountryCodes == {<<>>, <<"U", "S">>, <<"F", "R">>}

CountryCodeMappings ==
  {[locale |-> l, code |-> c] : l \in CoverageLocales, c \in CountryCodes}

InitCountry ==
  \E m \in {None, Some(<<>>)} \cup {Some(<<x>>) : x \in CountryCodeMappings} :
    Constructor(None, None, None, m)

NextCountry ==
  \/ \E mapping \in CountryCodeMappings : AddCountryCodeMapping(mapping)
  \/ \E a, b \in CountryCodeMappings : AddCountryCodeMappings(<<a, b>>)
  \/ AddCountryCodeMappings(<<>>)
  \/ \E locale \in CoverageLocales : LocaleToCountryCode(locale)
  \/ Return

SpecCountry == InitCountry /\ [][NextCountry]_vars

(***************************************************************************)
(* SpecFreshness: the cached coverage reports under every operation that   *)
(* changes the key list or the locale table.                               *)
(***************************************************************************)
FreshnessKeyLists == {<<>>, <<KeyA>>}

FreshnessData == {DictionaryOnly(<<>>), DictionaryOnly(<<<<KeyA, TemplateH>>>>)}

FreshnessResources ==
  {<<>>, <<<<LocaleEn, DictionaryOnly(<<<<KeyA, TemplateH>>>>)>>, <<LocaleFr, None>>>>}

InitFreshness ==
  \E k \in {None, Some(<<KeyA>>)} : Constructor(None, None, k, None)

NextFreshness ==
  \/ \E keys \in FreshnessKeyLists : LoadKeys(keys)
  \/ AddKey(KeyB)
  \/ AddAllKeys
  \/ \E locale \in CoverageLocales, data \in FreshnessData : LoadLocale(locale, data)
  \/ \E resources \in FreshnessResources : LoadLocales(resources)
  \/ \E locale \in CoverageLocales : GetCoverageReport(locale)
  \/ Return

SpecFreshness == InitFreshness /\ [][NextFreshness]_vars

(***************************************************************************)
(* SpecSplit: translateTo on strings that start with the header text but   *)
(* are not header + separator + bare key, next to one that is.             *)
(***************************************************************************)
HeaderedKeys ==
  { header,
    header \o <<"X">>,
    header \o separator,
    header \o <<"X">> \o separator \o KeyA,
    header \o <<"X">> \o separator \o KeyA \o separator \o KeyB,
    createKey(KeyA) }

SplitData == {None, DictionaryOnly(<<<<KeyA, TemplateH>>>>)}

InitSplit == \E h \in {None, Some(<<"t">>)} : Constructor(h, None, None, None)

NextSplit ==
  \/ \E locale \in CoverageLocales, data \in SplitData : LoadLocale(locale, data)
  \/ \E key \in HeaderedKeys, locale \in CoverageLocales, args \in ParamInputs :
       TranslateTo(key, locale, args)
  \/ Return

SpecSplit == InitSplit /\ [][NextSplit]_vars

(***************************************************************************)
(* Properties of translateTo, translate and setLanguage (SpecTranslate).   *)
(***************************************************************************)
Loaded(locale) == hasLocale(i18ns, locale)

DictionaryAt(locale) == Val(MapGet(i18ns, locale)).dictionary

Sentinel(key, locale, error) == key \o separator \o locale \o separator \o error

\* C1: once locale L is loaded with the dictionary {k: v}, v non-empty, and for
\* as long as L is not loaded again, translateTo(createKey(k), L) without params
\* returns exactly v, for any bare key k.
C1_RoundTrip ==
  \A k \in QueryBareKeys, v \in Templates \ {<<>>} :
    ( /\ ret.op = "translateTo"
      /\ ret.key = createKey(k)
      /\ ret.args = None
      /\ Loaded(Val(ret.locale))
      /\ DictionaryAt(Val(ret.locale)) = <<<<k, v>>>> )
    => ret.out = Some(v)

\* The round trip of C1 for the bare keys whose namespaced key splits on the
\* separator into exactly the header and the bare key.
RoundTripOfTwoPartKeys ==
  \A k \in QueryBareKeys, v \in Templates \ {<<>>} :
    ( /\ ret.op = "translateTo"
      /\ ret.key = createKey(k)
      /\ StrSplit(ret.key, separator) = <<header, k>>
      /\ ret.args = None
      /\ Loaded(Val(ret.locale))
      /\ MapGet(DictionaryAt(Val(ret.locale)), k) = Some(v) )
    => ret.out = Some(v)

\* C2: translateTo returns a key that does not start with the header unchanged,
\* for every locale, loaded or not, and every params value.
C2_PassThrough ==
  (ret.op = "translateTo" /\ ~StartsWith(ret.key, header)) => ret.out = Some(ret.key)

\* C2 witness: a key with a foreign prefix and a separator, whose bare part is in
\* the loaded locale's dictionary, has been handed to translateTo with params.
C2_Witness ==
  /\ ret.op = "translateTo"
  /\ ret.key = <<"x">> \o separator \o KeyA
  /\ ~StartsWith(ret.key, header)
  /\ IsSome(ret.args)
  /\ Loaded(Val(ret.locale))
  /\ MapGet(DictionaryAt(Val(ret.locale)), KeyA) = Some(TemplateH)
  /\ ret.out = Some(ret.key)

\* C3: for a namespaced key K = header + separator + bare key and a locale Z that
\* is not loaded, translateTo(K, Z) returns K + separator + Z + separator +
\* 'error-missing-locale', whatever the params.
C3_MissingLocale ==
  \A k \in QueryBareKeys :
    ( /\ ret.op = "translateTo"
      /\ ret.key = createKey(k)
      /\ ~Loaded(Val(ret.locale)) )
    => ret.out = Some(Sentinel(ret.key, Val(ret.locale), ERROR_MISSING_LOCALE))

\* The missing-locale sentinel of C3 for the keys that split into two parts.
MissingLocaleOfTwoPartKeys ==
  ( /\ ret.op = "translateTo"
    /\ StartsWith(ret.key, header)
    /\ Len(StrSplit(ret.key, separator)) = 2
    /\ ~Loaded(Val(ret.locale)) )
  => ret.out = Some(Sentinel(ret.key, Val(ret.locale), ERROR_MISSING_LOCALE))

\* C4: for a loaded locale L and a namespaced key K = header + separator + bare
\* key whose bare key is absent from L's dictionary or maps to the empty string,
\* translateTo(K, L) returns K + separator + L + separator + 'error-missing-key'.
C4_MissingKey ==
  \A k \in QueryBareKeys :
    ( /\ ret.op = "translateTo"
      /\ ret.key = createKey(k)
      /\ Loaded(Val(ret.locale))
      /\ MapGet(DictionaryAt(Val(ret.locale)), k) \in {None, Some(<<>>)} )
    => ret.out = Some(Sentinel(ret.key, Val(ret.locale), ERROR_MISSING_KEY))

\* The missing-key sentinel of C4 for the keys that split into two parts.
MissingKeyOfTwoPartKeys ==
  \A k \in QueryBareKeys :
    ( /\ ret.op = "translateTo"
      /\ ret.key = createKey(k)
      /\ StrSplit(ret.key, separator) = <<header, k>>
      /\ Loaded(Val(ret.locale))
      /\ MapGet(DictionaryAt(Val(ret.locale)), k) \in {None, Some(<<>>)} )
    => ret.out = Some(Sentinel(ret.key, Val(ret.locale), ERROR_MISSING_KEY))

\* C8: once setLanguage(L) has succeeded for a loaded locale L, and until the
\* next setLanguage, translate(key, params) returns what translateTo(key, L,
\* params) returns, for every key and params.
C8_TranslateIsTranslateTo ==
  (ret.op = "translate" /\ IsSome(currentLanguage))
  => /\ ~ret.threw
     /\ ret.out = Some(translateTo(ret.key, Val(currentLanguage), ret.args))

\* The equivalence of C8 for the locale identifiers other than the empty string.
TranslateOfNonEmptyLanguage ==
  (ret.op = "translate" /\ IsSome(currentLanguage) /\ Val(currentLanguage) # <<>>)
  => /\ ~ret.threw
     /\ ret.out = Some(translateTo(ret.key, Val(currentLanguage), ret.args))

\* C9: setLanguage(X) for a locale X that is not loaded throws and leaves the
\* global locale, set or unset, and the rest of the registry as they were.
C9_SetLanguageUnloaded ==
  [][ ( /\ ret = NoCall
        /\ ret'.op = "setLanguage"
        /\ IsSome(ret'.locale)
        /\ ~Loaded(Val(ret'.locale)) )
      => (ret'.threw /\ registry' = registry) ]_vars

\* C9 witness: setLanguage has thrown for an unloaded locale while another
\* locale was the global one, and that one still is.
C9_Witness ==
  /\ ret.op = "setLanguage"
  /\ ret.threw
  /\ ret.locale = Some(LocaleEmpty)
  /\ ~Loaded(LocaleEmpty)
  /\ currentLanguage = Some(LocaleEn)

\* C10: the global locale is null or the identifier of a loaded locale, in every
\* reachable state.
C10_LanguageIsLoaded ==
  currentLanguage = None \/ Loaded(Val(currentLanguage))

\* C10 witness: a global locale is set, both locales are loaded, and the global
\* one has just been loaded again.
C10_Witness ==
  /\ currentLanguage = Some(LocaleEn)
  /\ Len(i18ns) = 2
  /\ ret.op = "loadLocale"
  /\ ret.locale = Some(LocaleEn)

(***************************************************************************)
(* Properties of the coverage reports (Spec).                              *)
(***************************************************************************)
\* the j-th smallest element of a set of numbers
NthSmallest(S, j) == CHOOSE x \in S : Cardinality({y \in S : y < x}) = j - 1

\* the keys of C outside D, in C's order
MissingOf(C, D) ==
  LET at == {i \in 1..Len(C) : C[i] \notin D}
  IN [j \in 1..Cardinality(at) |-> C[NthSmallest(at, j)]]

\* C5: for a non-empty canonical key sequence C and a loaded locale whose
\* dictionary has the key set D, validateLocale returns missingKeys = the keys of
\* C outside D in C's order, extraKeys = the keys of D outside C, and coverage =
\* (|C| - |missingKeys|) / |C|; with m of the n entries of C in D that is
\* coverage m/n and n - m missing keys.
C5_CoverageReport ==
  \A locale \in CoverageLocales :
    ( /\ ret.op = "validateLocale"
      /\ ret.locale = Some(locale)
      /\ _keys # <<>>
      /\ Loaded(locale) )
    => /\ IsSome(ret.report)
       /\ LET r == Val(ret.report)
              C == _keys
              D == Range(MapKeys(DictionaryAt(locale)))
              n == Len(C)
              m == Cardinality({i \in 1..Len(C) : C[i] \in D})
          IN /\ r.missingKeys = MissingOf(C, D)
             /\ Range(r.extraKeys) = D \ Range(C)
             /\ Len(r.extraKeys) = Cardinality(D \ Range(C))
             /\ r.coverage.num * n = (n - Len(r.missingKeys)) * r.coverage.den
             /\ r.coverage.num * n = m * r.coverage.den
             /\ r.coverage.den > 0
             /\ Len(r.missingKeys) = n - m

\* C5 witness: validateLocale has returned a report with a missing key, an extra
\* key and a coverage of one half.
C5_Witness ==
  /\ ret.op = "validateLocale"
  /\ IsSome(ret.report)
  /\ Val(ret.report).missingKeys = <<KeyB>>
  /\ Val(ret.report).extraKeys # <<>>
  /\ Val(ret.report).coverage = [num |-> 1, den |-> 2]

\* C6: every cached coverage report has coverage 1 exactly when its missingKeys
\* list is empty.
C6_FullCoverageIffNothingMissing ==
  \A i \in 1..Len(coverageReports) :
    LET r == coverageReports[i][2]
    IN (r.coverage = One) <=> (r.missingKeys = <<>>)

\* C6 witness: the cache holds a report of coverage 1 with an extra key and a
\* report of lower coverage with a missing key.
C6_Witness ==
  /\ \E i \in 1..Len(coverageReports) :
       /\ coverageReports[i][2].coverage = One
       /\ coverageReports[i][2].extraKeys # <<>>
  /\ \E i \in 1..Len(coverageReports) :
       /\ coverageReports[i][2].coverage # One
       /\ coverageReports[i][2].missingKeys # <<>>

\* C7: when the canonical key set is empty, the report obtained for any loaded
\* locale has coverage 1.
C7_VacuousCoverage ==
  \A locale \in CoverageLocales :
    ( /\ ret.op \in {"validateLocale", "getCoverageReport"}
      /\ ret.locale = Some(locale)
      /\ _keys = <<>>
      /\ Loaded(locale) )
    => (IsSome(ret.report) /\ Val(ret.report).coverage = One)

(***************************************************************************)
(* Properties of the placeholder substitution (SpecSubstitute).            *)
(***************************************************************************)
Placeholder(name) == <<"{">> \o name \o <<"}">>

\* the literal substitution: for each pair in turn, every occurrence of the text
\* {name} becomes the value as it is
RECURSIVE LiteralSubstitute(_, _)
LiteralSubstitute(template, pairs) ==
  IF pairs = <<>> THEN template
  ELSE LiteralSubstitute(
         ReplaceAll(template, Placeholder(Head(pairs)[1]), Head(pairs)[2]), Tail(pairs))

\* translateTo has resolved KeyA to the template T and was given args
ResolvedWithArgs(T) ==
  /\ ret.op = "translateTo"
  /\ ret.key = createKey(KeyA)
  /\ IsSome(ret.args)
  /\ Loaded(Val(ret.locale))
  /\ MapGet(DictionaryAt(Val(ret.locale)), KeyA) = Some(T)

OtherShape(args) == [isMap |-> ~args.isMap, pairs |-> args.pairs]

\* C11: for a resolved template, translateTo replaces every occurrence of
\* {name} by the supplied value for each (name, value) of params; params none of
\* whose placeholders occur in the template leave it as it is, placeholders
\* without a param included; and the same pairs given as a Map or as a plain
\* object yield the same output.
C11_PlaceholderSubstitution ==
  \A T \in SubstitutionTemplates :
    ResolvedWithArgs(T) =>
      LET args  == Val(ret.args)
          pairs == ArgEntries(args)
      IN /\ ret.out = Some(LiteralSubstitute(T, pairs))
         /\ (\A i \in 1..Len(pairs) : IndexOf(T, Placeholder(pairs[i][1])) = 0)
              => ret.out = Some(T)
         /\ ret.out = Some(translateTo(ret.key, Val(ret.locale), Some(OtherShape(args))))

\* The substitution of C11 for params whose names hold no dot and are no array
\* indices and whose values hold no $.
SubstitutionOfPlainParams ==
  \A T \in SubstitutionTemplates :
    ( /\ ResolvedWithArgs(T)
      /\ \A i \in 1..Len(Val(ret.args).pairs) :
            LET pair == Val(ret.args).pairs[i]
            IN /\ ~Includes(pair[1], ".")
               /\ ~IsArrayIndex(pair[1])
               /\ ~Includes(pair[2], "$") )
    => /\ ret.out = Some(LiteralSubstitute(T, Val(ret.args).pairs))
       /\ ret.out = Some(translateTo(ret.key, Val(ret.locale),
                                      Some(OtherShape(Val(ret.args)))))

(***************************************************************************)
(* Properties of loads, reloads, the locale list and the language names    *)
(* (SpecLanguages).                                                        *)
(***************************************************************************)
\* the entries of a table of a data object, as a set of <<key, value>> pairs
DictionaryPairs(data) ==
  IF IsSome(data) /\ IsSome(Val(data).dictionary) THEN Range(Val(Val(data).dictionary)) ELSE {}

LanguagePairs(data) ==
  IF IsSome(data) /\ IsSome(Val(data).languages) THEN Range(Val(Val(data).languages)) ELSE {}

\* C12: when loadLocale(L, d2) follows an earlier load of L, L's dictionary and
\* language table are exactly those of d2; a bare key of the earlier dictionary
\* that d2 lacks yields the missing-key sentinel from translateTo, and a language
\* code of the earlier table that d2 lacks is returned as it is by
\* getLanguageName.
C12_ReloadReplaces ==
  [][ \A L \in CoverageLocales :
        (ret'.op = "loadLocale" /\ ret'.locale = Some(L) /\ Loaded(L)) =>
          \A d2 \in LanguageData :
            LoadLocale(L, d2) =>
              LET old == Val(MapGet(i18ns, L))
                  new == Val(MapGet(i18ns', L))
              IN /\ Range(new.dictionary) = DictionaryPairs(d2)
                 /\ Len(new.dictionary) = Cardinality(DictionaryPairs(d2))
                 /\ Range(new.languages) = LanguagePairs(d2)
                 /\ Len(new.languages) = Cardinality(LanguagePairs(d2))
                 /\ \A k \in Range(MapKeys(old.dictionary)) \ Range(MapKeys(new.dictionary)) :
                      translateTo(createKey(k), L, None)'
                        = Sentinel(createKey(k), L, ERROR_MISSING_KEY)
                 /\ \A c \in Range(MapKeys(old.languages)) \ Range(MapKeys(new.languages)) :
                      getLanguageName(c, L)' = c ]_vars

\* The replacement of C12 with the sentinel for the bare keys whose namespaced
\* key splits into two parts.
ReloadReplacesOfTwoPartKeys ==
  [][ \A L \in CoverageLocales :
        (ret'.op = "loadLocale" /\ ret'.locale = Some(L) /\ Loaded(L)) =>
          \A d2 \in LanguageData :
            LoadLocale(L, d2) =>
              LET old == Val(MapGet(i18ns, L))
                  new == Val(MapGet(i18ns', L))
              IN /\ Range(new.dictionary) = DictionaryPairs(d2)
                 /\ Len(new.dictionary) = Cardinality(DictionaryPairs(d2))
                 /\ Range(new.languages) = LanguagePairs(d2)
                 /\ Len(new.languages) = Cardinality(LanguagePairs(d2))
                 /\ \A k \in Range(MapKeys(old.dictionary)) \ Range(MapKeys(new.dictionary)) :
                      Len(StrSplit(createKey(k), separator)) = 2 =>
                        translateTo(createKey(k), L, None)'
                          = Sentinel(createKey(k), L, ERROR_MISSING_KEY)
                 /\ \A c \in Range(MapKeys(old.languages)) \ Range(MapKeys(new.languages)) :
                      getLanguageName(c, L)' = c ]_vars

\* C15: getLocales lists the loaded locales in the order of their first load,
\* each once: a load of a new locale appends it, loadLocales appends its new
\* locales in the order of its entries, a reload changes neither the length nor
\* a position, and nothing else changes the list.
C15_GetLocalesInsertionOrder ==
  [][ LET old == getLocales(i18ns)
          new == getLocales(i18ns')
      IN /\ \A i, j \in 1..Len(new) : new[i] = new[j] => i = j
         /\ \A L \in CoverageLocales :
              (ret'.op = "loadLocale" /\ ret'.locale = Some(L))
              => new = IF L \in Range(old) THEN old ELSE Append(old, L)
         /\ \A rs \in LanguageResources :
              LoadLocales(rs) => new = old \o MissingOf(MapKeys(rs), Range(old))
         /\ ret'.op \notin {"loadLocale", "loadLocales"} => new = old
         /\ ret'.op = "getLocales" => ret'.out = Some(old) ]_vars

\* C15 witness: fr was loaded before en and has just been loaded again, and is
\* still listed first.
C15_Witness ==
  /\ ret.op = "loadLocale"
  /\ ret.locale = Some(LocaleFr)
  /\ getLocales(i18ns) = <<LocaleFr, LocaleEn>>

\* C18: getLanguageName(code, locale) does not throw; for a locale that is not
\* loaded it returns a 'not found' text naming the locale, for a loaded locale
\* that maps code to a name it returns that name, and for a loaded locale with
\* no name for code it returns code.
C18_LanguageName ==
  \A locale \in CoverageLocales :
    (ret.op = "getLanguageName" /\ ret.locale = Some(locale)) =>
      /\ ~ret.threw
      /\ IsSome(ret.out)
      /\ IF ~Loaded(locale)
         THEN /\ IndexOf(Val(ret.out), locale) # 0
              /\ IndexOf(Val(ret.out), <<"n", "o", "t", " ", "f", "o", "u", "n", "d">>) # 0
         ELSE LET name == MapGet(Val(MapGet(i18ns, locale)).languages, ret.key)
              IN ret.out = IF IsSome(name) THEN name ELSE Some(ret.key)

\* C18 as amended: a loaded locale that maps code to a non-empty name returns
\* that name; a loaded locale with no name or an empty name for code returns
\* code.
C18_LanguageNameOrCode ==
  \A locale \in CoverageLocales :
    (ret.op = "getLanguageName" /\ ret.locale = Some(locale)) =>
      /\ ~ret.threw
      /\ IsSome(ret.out)
      /\ IF ~Loaded(locale)
         THEN /\ IndexOf(Val(ret.out), locale) # 0
              /\ IndexOf(Val(ret.out), <<"n", "o", "t", " ", "f", "o", "u", "n", "d">>) # 0
         ELSE LET name == MapGet(Val(MapGet(i18ns, locale)).languages, ret.key)
              IN ret.out = IF IsSome(name) /\ Val(name) # <<>> THEN name ELSE Some(ret.key)

\* C18 witness: the loaded locale maps the code to the empty name and the code
\* has been returned.
C18_Witness ==
  /\ ret.op = "getLanguageName"
  /\ ret.key = CodeDe
  /\ Loaded(Val(ret.locale))
  /\ MapGet(Val(MapGet(i18ns, Val(ret.locale))).languages, CodeDe) = Some(<<>>)
  /\ ret.out = Some(CodeDe)

(***************************************************************************)
(* Properties of loadKeys and validateLocale (Spec) and of the Map handed  *)
(* out by getAllCoverageReports (SpecSnapshot).                            *)
(***************************************************************************)
\* r is the report of a locale whose dictionary has the key set D, against the
\* key sequence C
IsReportOf(r, locale, C, D) ==
  /\ r.locale = locale
  /\ r.missingKeys = MissingOf(C, D)
  /\ Range(r.extraKeys) = D \ Range(C)
  /\ r.coverage.den > 0
  /\ IF Len(C) = 0 THEN r.coverage = One
     ELSE r.coverage.num * Len(C) = (Len(C) - Len(r.missingKeys)) * r.coverage.den

\* C13: when loadKeys(keys) has returned, the cached report of every loaded
\* locale is the one computed against the new keys, and no report computed
\* against the earlier keys remains, also when the new key list is empty.
C13_LoadKeysRecomputes ==
  ret.op = "loadKeys" =>
    \A locale \in CoverageLocales :
      Loaded(locale) =>
        LET r == getCoverageReport(coverageReports, locale)
            D == Range(MapKeys(DictionaryAt(locale)))
        IN /\ _keys # <<>> => IsSome(r)
           /\ IsSome(r) => IsReportOf(Val(r), locale, _keys, D)

\* The recomputation of C13 for the key lists that are not empty.
LoadKeysRecomputesForSomeKeys ==
  (ret.op = "loadKeys" /\ _keys # <<>>) =>
    \A locale \in CoverageLocales :
      Loaded(locale) =>
        LET r == getCoverageReport(coverageReports, locale)
            D == Range(MapKeys(DictionaryAt(locale)))
        IN IsSome(r) /\ IsReportOf(Val(r), locale, _keys, D)

\* C19: validateLocale(locale) returns none when the key list is empty or the
\* locale is not loaded and then leaves the cached reports and the rest of the
\* registry as they were; otherwise it returns a report, and that report is the
\* cached report of the locale.
C19_ValidateLocale ==
  [][ \A locale \in CoverageLocales :
        (ret = NoCall /\ ret'.op = "validateLocale" /\ ret'.locale = Some(locale)) =>
          IF _keys = <<>> \/ ~Loaded(locale)
          THEN ret'.report = None /\ registry' = registry
          ELSE /\ IsSome(ret'.report)
               /\ getCoverageReport(coverageReports', locale) = ret'.report ]_vars

\* C19 witness: validateLocale has returned none for a locale that is not loaded
\* while keys are defined and another locale has a cached report.
C19_Witness ==
  /\ ret.op = "validateLocale"
  /\ ret.report = None
  /\ _keys # <<>>
  /\ ~Loaded(Val(ret.locale))
  /\ coverageReports # <<>>

\* C14: what the holder of the Map returned by getAllCoverageReports does to it
\* (adding or removing entries, writing to the fields or the lists of a report
\* in it) does not change what getCoverageReport and getAllCoverageReports
\* return afterwards.
C14_SnapshotIsolation ==
  [][ (ret = NoCall /\ ret' = NoCall /\ snapshot' # snapshot) =>
        /\ \A locale \in CoverageLocales :
             getCoverageReport(coverageReports', locale)
               = getCoverageReport(coverageReports, locale)
        /\ getAllCoverageReports(coverageReports')
             = getAllCoverageReports(coverageReports) ]_vars

\* The isolation of C14 for the entries of the Map: adding and removing them.
SnapshotEntriesIsolation ==
  [][ (\E locale \in CoverageLocales : SnapshotDelete(locale) \/ SnapshotSet(locale))
      => coverageReports' = coverageReports ]_vars

(***************************************************************************)
(* Properties of the derived key objects (SpecKeys).                       *)
(***************************************************************************)
\* the elements of a sequence in the order of their first occurrence
FirstOccurrences(seq) ==
  LET at == {i \in 1..Len(seq) : \A j \in 1..(i - 1) : seq[j] # seq[i]}
  IN [j \in 1..Cardinality(at) |-> seq[NthSmallest(at, j)]]

\* C16: the object returned by the keys getter (createAllKeys) has exactly one
\* entry per canonical key, in canonical order, and maps each key k to header +
\* separator + k, for the canonical list as it is when the getter is read.
C16_DerivedKeys ==
  ret.op = "keys" =>
    LET obj == Val(ret.out)
    IN /\ MapKeys(obj) = FirstOccurrences(_keys)
       /\ \A i \in 1..Len(obj) : obj[i][2] = header \o separator \o obj[i][1]

\* The derived keys of C16 for the canonical lists without an array index.
DerivedKeysWithoutArrayIndex ==
  (ret.op = "keys" /\ \A i \in 1..Len(_keys) : ~IsArrayIndex(_keys[i])) =>
    LET obj == Val(ret.out)
    IN /\ MapKeys(obj) = FirstOccurrences(_keys)
       /\ \A i \in 1..Len(obj) : obj[i][2] = header \o separator \o obj[i][1]

\* The derived keys of C16 with the order left out: one entry per canonical key,
\* each mapped to header + separator + key.
DerivedKeysAsSet ==
  ret.op = "keys" =>
    LET obj == Val(ret.out)
    IN /\ Range(MapKeys(obj)) = Range(_keys)
       /\ Len(obj) = Cardinality(Range(_keys))
       /\ \A i \in 1..Len(obj) : obj[i][2] = header \o separator \o obj[i][1]

\* C17: for every canonical bare key k made of hyphen-, underscore- or
\* dot-delimited segments, the keys object holds header + separator + k under
\* the camel-cased name of k, and translateTo on that value returns k's template
\* for a locale whose dictionary has one.
C17_CamelCaseAccessors ==
  \A k \in BareKeys :
    Includes(_keys, k) =>
      /\ ret.op = "camelCaseKeys"
           => MapGet(Val(ret.out), ToCamelCase(k)) = Some(header \o separator \o k)
      /\ ( /\ ret.op = "translateTo"
           /\ ret.key = header \o separator \o k
           /\ Loaded(Val(ret.locale)) )
         => ret.out = MapGet(DictionaryAt(Val(ret.locale)), k)

\* The accessors of C17 for the keys whose camel-cased name no other canonical
\* key has and whose namespaced key splits into two parts.
CamelCaseAccessorsOfTwoPartKeys ==
  \A k \in BareKeys :
    Includes(_keys, k) =>
      /\ ( /\ ret.op = "camelCaseKeys"
           /\ \A i \in 1..Len(_keys) : ToCamelCase(_keys[i]) = ToCamelCase(k) => _keys[i] = k )
         => MapGet(Val(ret.out), ToCamelCase(k)) = Some(header \o separator \o k)
      /\ ( /\ ret.op = "translateTo"
           /\ ret.key = header \o separator \o k
           /\ Len(StrSplit(ret.key, separator)) = 2
           /\ Loaded(Val(ret.locale)) )
         => ret.out = MapGet(DictionaryAt(Val(ret.locale)), k)

(***************************************************************************)
(* Properties of the country-code mappings (SpecCountry).                  *)
(***************************************************************************)
\* the positions of the mappings of a locale
MappingsOf(locale) ==
  {i \in 1..Len(countryCodeMappings) : countryCodeMappings[i].locale = locale}

\* the mappings are kept in registration order: an add operation puts its
\* mappings, in call order, behind those there are, and nothing else changes
\* the list
RegistrationOrder ==
  /\ ret'.op \in {"addCountryCodeMapping", "addCountryCodeMappings"}
       => countryCodeMappings' = countryCodeMappings \o Val(ret'.args)
  /\ ret'.op \notin {"addCountryCodeMapping", "addCountryCodeMappings"}
       => countryCodeMappings' = countryCodeMappings

\* C20: localeToCountryCode(locale) returns the code of the first mapping, in
\* registration order (those of the constructor, then those added, in call
\* order), whose locale is the argument, and 'XX' when there is none.
C20_FirstMatch ==
  [][ /\ RegistrationOrder
      /\ \A locale \in CoverageLocales :
           (ret'.op = "localeToCountryCode" /\ ret'.locale = Some(locale)) =>
             ret'.out = IF MappingsOf(locale) = {} THEN Some(<<"X", "X">>)
                        ELSE Some(countryCodeMappings[NthSmallest(MappingsOf(locale), 1)].code)
    ]_vars

\* C20 as amended: the code of the first mapping of the locale when that code is
\* not empty, and 'XX' when no mapping has the locale or the code of the first
\* one is empty.
C20_FirstMatchOrDefault ==
  [][ /\ RegistrationOrder
      /\ \A locale \in CoverageLocales :
           (ret'.op = "localeToCountryCode" /\ ret'.locale = Some(locale)) =>
             LET first == NthSmallest(MappingsOf(locale), 1)
             IN ret'.out = IF MappingsOf(locale) = {} \/ countryCodeMappings[first].code = <<>>
                           THEN Some(<<"X", "X">>)
                           ELSE Some(countryCodeMappings[first].code)
    ]_vars

\* C20 witness: the locale has a mapping from the constructor or an earlier add
\* and a later one with another code, and the code of the earlier one has been
\* returned.
C20_Witness ==
  /\ ret.op = "localeToCountryCode"
  /\ \E i, j \in MappingsOf(Val(ret.locale)) :
       /\ i < j
       /\ countryCodeMappings[i].code # <<>>
       /\ countryCodeMappings[j].code \notin {<<>>, countryCodeMappings[i].code}
       /\ \A h \in MappingsOf(Val(ret.locale)) : i <= h
       /\ ret.out = Some(countryCodeMappings[i].code)

(***************************************************************************)
(* Properties of the key split of translateTo (SpecTranslate).             *)
(***************************************************************************)
\* C21: translateTo splits the key on the first occurrence of the separator
\* only: for a bare key k that holds the separator and has a non-empty template
\* in the dictionary of the loaded locale L, translateTo(createKey(k), L) returns
\* that template.
C21_SplitOnFirst ==
  \A k \in QueryBareKeys :
    ( /\ ret.op = "translateTo"
      /\ IndexOf(k, separator) # 0
      /\ ret.key = createKey(k)
      /\ ret.args = None
      /\ Loaded(Val(ret.locale))
      /\ MapGet(DictionaryAt(Val(ret.locale)), k) \notin {None, Some(<<>>)} )
    => ret.out = MapGet(DictionaryAt(Val(ret.locale)), k)

\* C22: translateTo resolves a key only when it splits into exactly the header
\* and a bare key: a string that starts with the header text and has no
\* separator, or whose part before the first separator is longer than the
\* header, is returned unchanged for every locale (SpecSplit).
C22_ExactHeader ==
  ( /\ ret.op = "translateTo"
    /\ StartsWith(ret.key, header)
    /\ \/ IndexOf(ret.key, separator) = 0
       \/ IndexOf(ret.key, separator) - 1 > Len(header) )
  => ret.out = Some(ret.key)

\* The pass-through of C22 for the strings without a separator.
PassThroughWithoutSeparator ==
  ( /\ ret.op = "translateTo"
    /\ StartsWith(ret.key, header)
    /\ IndexOf(ret.key, separator) = 0 )
  => ret.out = Some(ret.key)

(***************************************************************************)
(* Properties of the order of the substitutions (SpecSubstitute).          *)
(***************************************************************************)
\* the single simultaneous replacement: the template is read once from left to
\* right, a placeholder {name} of one of the pairs becomes the value of that
\* pair as it is, and the text put in is not read again
RECURSIVE SimultaneousSubstitute(_, _)
SimultaneousSubstitute(template, pairs) ==
  IF template = <<>> THEN <<>>
  ELSE LET at == {i \in 1..Len(pairs) : StartsWith(template, Placeholder(pairs[i][1]))}
       IN IF at = {}
          THEN <<Head(template)>> \o SimultaneousSubstitute(Tail(template), pairs)
          ELSE LET pair == pairs[CHOOSE i \in at : \A j \in at : i <= j]
               IN pair[2] \o
                  SimultaneousSubstitute(
                    SubSeq(template, Len(Placeholder(pair[1])) + 1, Len(template)), pairs)

\* the same entries in every order
Reorderings(pairs) ==
  {[i \in 1..Len(pairs) |-> pairs[f[i]]] :
     f \in {g \in [1..Len(pairs) -> 1..Len(pairs)] :
              \A i, j \in 1..Len(pairs) : g[i] = g[j] => i = j}}

\* C23: the substitution is not recursive: text put in as the value of one param
\* is not rewritten by another param, so the output is the single simultaneous
\* replacement over the template and is the same for every order of the entries
\* of params.
C23_NotRecursive ==
  \A T \in SubstitutionTemplates :
    ResolvedWithArgs(T) =>
      LET pairs == ArgEntries(Val(ret.args))
      IN /\ ret.out = Some(SimultaneousSubstitute(T, pairs))
         /\ \A other \in Reorderings(pairs) :
              ret.out = Some(translateTo(ret.key, Val(ret.locale), Some(MapArgs(other))))

\* The substitution of C23 for params none of whose values holds a placeholder
\* of another param, with names without a dot and values without $.
NotRecursiveOfUnrelatedParams ==
  \A T \in SubstitutionTemplates :
    ( /\ ResolvedWithArgs(T)
      /\ \A i, j \in 1..Len(Val(ret.args).pairs) :
            LET pairs == Val(ret.args).pairs
            IN /\ ~Includes(pairs[i][1], ".")
               /\ ~Includes(pairs[i][2], "$")
               /\ IndexOf(pairs[i][2], Placeholder(pairs[j][1])) = 0 )
    => LET pairs == ArgEntries(Val(ret.args))
       IN /\ ret.out = Some(SimultaneousSubstitute(T, pairs))
          /\ \A other \in Reorderings(pairs) :
               ret.out = Some(translateTo(ret.key, Val(ret.locale), Some(MapArgs(other))))

(***************************************************************************)
(* Properties of translate without a global language (SpecTranslate).      *)
(***************************************************************************)
\* C24: in every state where no global locale is set (never set, or cleared
\* with setLanguage(null)), translate(key, params) throws for every key, the
\* keys without the header included, and returns nothing: neither a sentinel
\* nor the key.
C24_TranslateThrowsUnset ==
  (ret.op = "translate" /\ currentLanguage = None) => (ret.threw /\ ret.out = None)

\* C24 witness: translate has thrown for a key without the header while no
\* global locale is set and a locale is loaded that has the key.
C24_Witness ==
  /\ ret.op = "translate"
  /\ currentLanguage = None
  /\ ~hasTranslationHeader(ret.key)
  /\ ret.threw
  /\ Loaded(LocaleEn)
  /\ MapGet(DictionaryAt(LocaleEn), KeyA) = Some(TemplateH)

(***************************************************************************)
(* Properties of the report cache (SpecFreshness).                         *)
(***************************************************************************)
\* every loaded locale has a cached report, and it is the report of the locale's
\* dictionary against the key list as it is now
Fresh ==
  \A locale \in CoverageLocales :
    Loaded(locale) =>
      LET r == getCoverageReport(coverageReports, locale)
      IN /\ IsSome(r)
         /\ IsReportOf(Val(r), locale, _keys, Range(MapKeys(DictionaryAt(locale))))

\* C25: in every reachable state with a non-empty canonical key list, every
\* loaded locale has a cached coverage report, and it equals the coverage
\* computed from the current key list and the locale's current dictionary,
\* after any sequence of loadKeys, addKey, addAllKeys, loadLocale, loadLocales.
C25_ReportFreshness == _keys # <<>> => Fresh

\* The freshness of C25 is kept by every step other than addKey and addAllKeys.
FreshnessKeptByLoads ==
  [][ ( /\ _keys # <<>> => Fresh
        /\ ret'.op \notin {"addKey", "addAllKeys"} )
      => (_keys' # <<>> => Fresh') ]_vars

(***************************************************************************)
(* Properties of the keys of the report cache (Spec).                      *)
(***************************************************************************)
\* C26: in every reachable state the locales that have a cached coverage report
\* are loaded locales, and the report cached under the locale L has L as its
\* locale field.
C26_ReportsOfLoadedLocales ==
  \A i \in 1..Len(coverageReports) :
    /\ Loaded(coverageReports[i][1])
    /\ coverageReports[i][2].locale = coverageReports[i][1]

\* C26 witness: fr and then en are loaded, and the only cached report is the
\* one of fr.
C26_Witness ==
  /\ getLocales(i18ns) = <<LocaleFr, LocaleEn>>
  /\ MapKeys(coverageReports) = <<LocaleFr>>
  /\ coverageReports[1][2].locale = LocaleFr

(***************************************************************************)
(* Properties of addKey and addAllKeys on the key list (SpecKeys).         *)
(***************************************************************************)
\* the keys of the list that do not carry the header
BareOf(list) == {list[i] : i \in {j \in 1..Len(list) : ~hasTranslationHeader(list[j])}}

\* C27: addAllKeys returns for every canonical key list although it appends to
\* the list it iterates over: it visits every element of the list once, the
\* appended ones included; the keys it appends are namespaced forms of bare keys
\* of the list, at most one for each bare key, and none for an appended key; and
\* a second addKey with the same argument adds nothing to the one element at
\* most that the first has added.
C27_AddAllKeysTerminates ==
  [][ /\ ret'.op = "addAllKeys" =>
           LET appended == SubSeq(_keys', Len(_keys) + 1, Len(_keys'))
           IN /\ addAllKeys.returned
              /\ IsSome(ret'.out)
              /\ addAllKeys.visits = Len(_keys')
              /\ SubSeq(_keys', 1, Len(_keys)) = _keys
              /\ \A i \in 1..Len(appended) :
                   /\ hasTranslationHeader(appended[i])
                   /\ \E k \in BareOf(_keys) : appended[i] = createKey(k)
                   /\ \A j \in 1..Len(appended) : appended[i] = appended[j] => i = j
              /\ Len(appended) <= Cardinality(BareOf(_keys))
              /\ addAllKeysFrom(_keys', 1, <<>>).keys = _keys'
      /\ ret'.op = "addKey" =>
           /\ Len(_keys') <= Len(_keys) + 1
           /\ SubSeq(_keys', 1, Len(_keys)) = _keys
           /\ addKey(_keys', ret'.key).keys = _keys'
    ]_vars

\* C27 witness: addAllKeys has returned with a list that holds one bare key
\* twice and the one namespaced key appended for it.
C27_Witness ==
  /\ ret.op = "addAllKeys"
  /\ IsSome(ret.out)
  /\ _keys = <<KeyOne, KeyOne, createKey(KeyOne)>>

====
